---- MODULE Spec2Model ----
(***************************************************************************)
(* SpotPages: the game-state reconstruction functions (poker-utils.ts and  *)
(* PokerTablePreview) and the compact tree navigator                       *)
(* (compact-tree-navigator.ts), the data provider and the spot page        *)
(* (SpotPage.tsx), modelled as five state machines.                        *)
(*                                                                         *)
(*   SpecReconstruct  a table view that follows an action sequence and     *)
(*                    recomputes stacks, pot and contributions at each     *)
(*                    node                                                 *)
(*   SpecNavigator    a CompactTreeNavigator over a tree, with its         *)
(*                    breadcrumb and path caches                           *)
(*   SpecProvider     the DataProvider: its renders, the tree cache that   *)
(*                    each render creates, tree downloads                  *)
(*   SpecSettings     the DataProvider's processSettingsData applied to    *)
(*                    raw settings                                         *)
(*   SpecSpotPage     the SpotPage: the current node and the fetches of    *)
(*                    its node data                                        *)
(*                                                                         *)
(* Sequences are 1-based here and 0-based in the source: seat p of the     *)
(* source is element p + 1 of a sequence.                                  *)
(***************************************************************************)
EXTENDS Integers, Sequences, FiniteSets, TLC

VARIABLES
    settings,       \* SettingsData: stacks, blinds {sb, bb, ante}, playerCount
    sequence,       \* currentNode.sequence: the actions from the root to the node
    currentStreet,  \* compactCurrentNode.s
    stackAbsolute,  \* calculatePlayerStackAbsolute per queried player index
    pot,            \* the value of calculatePotAndContributions at the node
    playerStacks,   \* the value of getPlayerStacks at the node
    allIn,          \* isActionAllIn as computed for the action that was taken last
    tree,           \* CompactTreeNavigator.tree: [nodes, root]
    nodeCache,      \* CompactTreeNavigator.nodeCache: id -> node
    pathCache,      \* CompactTreeNavigator.pathCache: id -> path string
    breadcrumbCache,\* CompactTreeNavigator.breadcrumbCache: id -> breadcrumbs
    ret,            \* the last call of the navigator: [op, arg, value]
    providerRender, \* DataProvider: the number of its latest render
    optimizedTreeCache, \* DataProvider: per render, the Map that the render created
    downloads,      \* per storage path, the downloads of the tree file so far
    treeRequests,   \* calls of fetchOptimizedTreeFromStorage awaiting a download
    fullSpot,       \* the tree data of the PokerSpot that the last fetchFullSpot returned
    processedSettings, \* the last raw settings and their processSettingsData result
    spot,           \* SpotPage: the spot state (null until the full spot arrived)
    pageCurrentNode,\* SpotPage: currentNode, the id of the current node
    CNodeData,      \* SpotPage: the node data on display
    isLoadingNodeData, \* SpotPage: the loading flag of the node data
    nodeFetches     \* SpotPage: calls of fetchNodeDataFromZip not yet resolved

reconstructVars ==
    <<settings, sequence, currentStreet, stackAbsolute, pot, playerStacks, allIn>>

navigatorVars == <<tree, nodeCache, pathCache, breadcrumbCache, ret>>

providerVars ==
    <<providerRender, optimizedTreeCache, downloads, treeRequests, fullSpot,
      processedSettings>>

pageVars == <<spot, pageCurrentNode, CNodeData, isLoadingNodeData, nodeFetches>>

vars == <<settings, sequence, currentStreet, stackAbsolute, pot, playerStacks, allIn,
          tree, nodeCache, pathCache, breadcrumbCache, ret,
          providerRender, optimizedTreeCache, downloads, treeRequests, fullSpot,
          processedSettings,
          spot, pageCurrentNode, CNodeData, isLoadingNodeData, nodeFetches>>

----------------------------------------------------------------------------
(* Bounds and input domains *)

MaxSeq == 3

\* nodes of a tree
MaxNodes == 3

\* player indices the stack function is asked about, out-of-range ones included
QueryPlayers == 0..4

Streets == {0, 1}

\* (player, type, amount) of the sequence entries.  Seat 0 makes every kind of
\* entry: a fold that carries an amount, a check, a call, raises (one of
\* amount 0) and an all-in; seats 1 and 2 a few of them.  Seat 2 is out of
\* range at a 2-handed table.
Entries ==
    {<<0, "F", 6>>, <<0, "X", 0>>, <<0, "C", 6>>, <<0, "R", 0>>,
     <<0, "R", 6>>, <<0, "R", 10>>, <<0, "R", 20>>, <<0, "A", 20>>,
     <<1, "F", 6>>, <<1, "C", 6>>, <<1, "R", 6>>, <<1, "A", 20>>,
     <<2, "C", 6>>, <<2, "R", 20>>}

HeadsUp200 ==
    [stacks |-> <<200, 200>>, blinds |-> [sb |-> 1, bb |-> 2, ante |-> 0],
     playerCount |-> 2]

SettingsSet ==
    { HeadsUp200,
      [stacks |-> <<12, 0>>, blinds |-> [sb |-> 1, bb |-> 2, ante |-> 1],
       playerCount |-> 2],
      [stacks |-> <<15, 200, 0, 200>>, blinds |-> [sb |-> 1, bb |-> 2, ante |-> 1],
       playerCount |-> 4] }

----------------------------------------------------------------------------
(* poker-utils.ts *)

Max(a, b) == IF a >= b THEN a ELSE b

\* mutant: the two seats of a 2-handed table exchanged
getPositionNames_Swapped(playerCount) ==
    IF playerCount = 2 THEN <<"BB", "SB">>
    ELSE IF playerCount = 3 THEN <<"BU", "SB", "BB">>
    ELSE IF playerCount = 4 THEN <<"CO", "BU", "SB", "BB">>
    ELSE <<"SB", "BB">>

getPositionNames(playerCount) ==
    IF playerCount = 2 THEN <<"SB", "BB">>
    ELSE IF playerCount = 3 THEN <<"BU", "SB", "BB">>
    ELSE IF playerCount = 4 THEN <<"CO", "BU", "SB", "BB">>
    ELSE IF playerCount = 5 THEN <<"HJ", "CO", "BU", "SB", "BB">>
    ELSE IF playerCount = 6 THEN <<"MP", "HJ", "CO", "BU", "SB", "BB">>
    ELSE IF playerCount = 7 THEN <<"UTG", "MP", "HJ", "CO", "BU", "SB", "BB">>
    ELSE IF playerCount = 8
        THEN <<"UTG", "UTG+1", "MP", "HJ", "CO", "BU", "SB", "BB">>
    ELSE IF playerCount = 9
        THEN <<"UTG", "UTG+1", "UTG+2", "MP", "HJ", "CO", "BU", "SB", "BB">>
    ELSE <<"SB", "BB">>

\* the fallback of `initialStacks[playerIndex] || 4000000`
DefaultStack == 4000000

\* positions[playerIndex]: undefined outside the array
PositionAt(positions, playerIndex) ==
    IF playerIndex + 1 \in DOMAIN positions THEN positions[playerIndex + 1]
    ELSE "undefined"

\* initialStacks[playerIndex] || 4000000: an absent and a zero entry are both falsy
InitialStack(stacks, playerIndex) ==
    IF playerIndex + 1 \in DOMAIN stacks /\ stacks[playerIndex + 1] # 0
    THEN stacks[playerIndex + 1]
    ELSE DefaultStack

\* the forEach of calculatePlayerStackAbsolute, entry by entry
RECURSIVE SubtractActions(_, _, _)
SubtractActions(currentStack, actionSequence, playerIndex) ==
    IF actionSequence = <<>> THEN currentStack
    ELSE LET action == Head(actionSequence)
         IN SubtractActions(
                IF action.player = playerIndex /\ action.type \in {"C", "R", "A"}
                THEN currentStack - action.amount
                ELSE currentStack,
                Tail(actionSequence), playerIndex)

calculatePlayerStackAbsolute(playerIndex, s, actionSequence) ==
    LET sb == s.blinds.sb
        bb == s.blinds.bb
        ante == s.blinds.ante
        positions == getPositionNames(IF s.playerCount # 0 THEN s.playerCount ELSE 2)
        playerPosition == PositionAt(positions, playerIndex)
        stack0 == InitialStack(s.stacks, playerIndex)
        stack1 == IF playerPosition = "SB" THEN stack0 - sb ELSE stack0
        stack2 == IF playerPosition = "BB" THEN stack1 - bb ELSE stack1
        stack3 == IF ante > 0 THEN stack2 - ante ELSE stack2
    IN Max(0, SubtractActions(stack3, actionSequence, playerIndex))

\* mutant: a wager of exactly the remaining stack is not an all-in
isActionAllIn_Strict(actionAmount, playerIndex, s, actionSequence) ==
    actionAmount > calculatePlayerStackAbsolute(playerIndex, s, actionSequence)

isActionAllIn(actionAmount, playerIndex, s, actionSequence) ==
    actionAmount >= calculatePlayerStackAbsolute(playerIndex, s, actionSequence)

----------------------------------------------------------------------------
(* PokerTablePreview: calculatePotAndContributions *)

\* positions.indexOf(name), 0-based, -1 when absent
IndexOf(positions, name) ==
    IF \E i \in DOMAIN positions : positions[i] = name
    THEN (CHOOSE i \in DOMAIN positions :
              positions[i] = name /\ \A j \in 1..(i - 1) : positions[j] # name) - 1
    ELSE -1

\* mutant: a raise is added to the street contribution, like a call
PotStep_RaiseAdds(acc, action, s) ==
    IF action.type # "F" /\ action.type # "X" /\ action.amount > 0
    THEN LET inRange == action.player < Len(acc.playerTotalContributions)
             k == action.player + 1
             onStreet == action.street = s
         IN [totalPot |-> acc.totalPot + action.amount,
             playerTotalContributions |->
                 IF inRange
                 THEN [acc.playerTotalContributions EXCEPT ![k] = @ + action.amount]
                 ELSE acc.playerTotalContributions,
             playerCurrentStreetContributions |->
                 IF inRange /\ onStreet /\ action.type \in {"C", "R"}
                 THEN [acc.playerCurrentStreetContributions EXCEPT
                           ![k] = @ + action.amount]
                 ELSE acc.playerCurrentStreetContributions]
    ELSE acc

\* mutant: a fold or check that carries an amount is counted in the pot
PotStep_CountsFolds(acc, action, s) ==
    IF action.amount > 0
    THEN LET inRange == action.player < Len(acc.playerTotalContributions)
             k == action.player + 1
             onStreet == action.street = s
         IN [totalPot |-> acc.totalPot + action.amount,
             playerTotalContributions |->
                 IF inRange
                 THEN [acc.playerTotalContributions EXCEPT ![k] = @ + action.amount]
                 ELSE acc.playerTotalContributions,
             playerCurrentStreetContributions |->
                 IF inRange /\ onStreet /\ action.type = "C"
                 THEN [acc.playerCurrentStreetContributions EXCEPT
                           ![k] = @ + action.amount]
                 ELSE IF inRange /\ onStreet /\ action.type = "R"
                 THEN [acc.playerCurrentStreetContributions EXCEPT
                           ![k] = action.amount]
                 ELSE acc.playerCurrentStreetContributions]
    ELSE acc

\* one iteration of the forEach over currentNode.sequence
PotStep(acc, action, s) ==
    IF action.type # "F" /\ action.type # "X" /\ action.amount > 0
    THEN LET inRange == action.player < Len(acc.playerTotalContributions)
             k == action.player + 1
             onStreet == action.street = s
         IN [totalPot |-> acc.totalPot + action.amount,
             playerTotalContributions |->
                 IF inRange
                 THEN [acc.playerTotalContributions EXCEPT ![k] = @ + action.amount]
                 ELSE acc.playerTotalContributions,
             playerCurrentStreetContributions |->
                 IF inRange /\ onStreet /\ action.type = "C"
                 THEN [acc.playerCurrentStreetContributions EXCEPT
                           ![k] = @ + action.amount]
                 ELSE IF inRange /\ onStreet /\ action.type = "R"
                 THEN [acc.playerCurrentStreetContributions EXCEPT
                           ![k] = action.amount]
                 ELSE acc.playerCurrentStreetContributions]
    ELSE acc

RECURSIVE PotFold(_, _, _)
PotFold(acc, actions, s) ==
    IF actions = <<>> THEN acc
    ELSE PotFold(PotStep(acc, Head(actions), s), Tail(actions), s)

\* s is compactCurrentNode.s, the street of the node shown
calculatePotAndContributions(st, actions, s) ==
    LET n == st.playerCount
        positions == getPositionNames(n)
        ante == st.blinds.ante
        sbIndex == IndexOf(positions, "SB")
        bbIndex == IndexOf(positions, "BB")
        sb == st.blinds.sb
        bb == st.blinds.bb
        zeros == [i \in 1..n |-> 0]
        pot0 == (IF ante > 0 THEN ante * n ELSE 0) + sb + bb
        \* an index past the array's end would grow the array; the seats of
        \* getPositionNames are within 0..n-1 for n in 2..9
        total1 == IF sbIndex # -1 THEN [zeros EXCEPT ![sbIndex + 1] = @ + sb] ELSE zeros
        cur1 == IF sbIndex # -1 /\ s = 0 THEN [zeros EXCEPT ![sbIndex + 1] = sb]
                ELSE zeros
        total2 == IF bbIndex # -1 THEN [total1 EXCEPT ![bbIndex + 1] = @ + bb]
                  ELSE total1
        cur2 == IF bbIndex # -1 /\ s = 0 THEN [cur1 EXCEPT ![bbIndex + 1] = bb]
                ELSE cur1
    IN PotFold([totalPot |-> pot0,
                playerCurrentStreetContributions |-> cur2,
                playerTotalContributions |-> total2], actions, s)

----------------------------------------------------------------------------
(* PokerTablePreview: getPlayerStacks *)

\* positions.forEach of getPlayerStacks from position index on (0-based): the
\* blind of the seat and the ante come off the stacks that exist
RECURSIVE SubtractBlinds(_, _, _, _)
SubtractBlinds(stacks, positions, blinds, index) ==
    IF index >= Len(positions) THEN stacks
    ELSE LET pos == positions[index + 1]
             has == index < Len(stacks)
             off == (IF pos = "SB" /\ has THEN blinds.sb ELSE 0)
                    + (IF pos = "BB" /\ has THEN blinds.bb ELSE 0)
                    + (IF blinds.ante > 0 /\ has THEN blinds.ante ELSE 0)
         IN SubtractBlinds(IF has THEN [stacks EXCEPT ![index + 1] = @ - off]
                           ELSE stacks,
                           positions, blinds, index + 1)

\* currentNode.sequence.forEach of getPlayerStacks
RECURSIVE SubtractWagers(_, _)
SubtractWagers(stacks, actions) ==
    IF actions = <<>> THEN stacks
    ELSE LET action == Head(actions)
         IN SubtractWagers(
                IF /\ action.type # "F" /\ action.type # "X" /\ action.amount > 0
                   /\ action.player < Len(stacks)
                THEN [stacks EXCEPT ![action.player + 1] = @ - action.amount]
                ELSE stacks,
                Tail(actions))

\* mutant: a stack that would go below zero stays at zero
getPlayerStacks_ClampsAtZero(st, actions) ==
    LET stacks == SubtractWagers(
                      SubtractBlinds(st.stacks, getPositionNames(st.playerCount),
                                     st.blinds, 0),
                      actions)
    IN [i \in DOMAIN stacks |-> Max(0, stacks[i])]

getPlayerStacks(st, actions) ==
    SubtractWagers(
        SubtractBlinds(st.stacks, getPositionNames(st.playerCount), st.blinds, 0),
        actions)

----------------------------------------------------------------------------
(* The table view: what is recomputed when a node is shown *)

StackResults(st, actions) ==
    [p \in QueryPlayers |->
        [threw |-> FALSE, value |-> calculatePlayerStackAbsolute(p, st, actions)]]

PotResult(st, actions, s) ==
    [threw |-> FALSE, value |-> calculatePotAndContributions(st, actions, s)]

\* the provider and the page are not part of the table view or the navigator
ProviderIdle ==
    /\ providerRender = 0
    /\ optimizedTreeCache = <<>>
    /\ downloads = <<>>
    /\ treeRequests = <<>>
    /\ fullSpot = [op |-> "none"]
    /\ processedSettings = [op |-> "none"]

PageIdle ==
    /\ spot = [loaded |-> FALSE]
    /\ pageCurrentNode = "0"
    /\ CNodeData = "null"
    /\ isLoadingNodeData = TRUE
    /\ nodeFetches = <<>>

\* the navigator is not part of the table view
NavigatorIdle ==
    /\ tree = [nodes |-> [id \in {} |-> <<>>], root |-> ""]
    /\ nodeCache = [id \in {} |-> <<>>]
    /\ pathCache = [id \in {} |-> <<>>]
    /\ breadcrumbCache = [id \in {} |-> <<>>]
    /\ ret = [op |-> "none", arg |-> <<>>, value |-> <<>>]

ReconstructInit ==
    /\ settings \in SettingsSet
    /\ sequence = <<>>
    /\ currentStreet = 0
    /\ stackAbsolute = StackResults(settings, sequence)
    /\ pot = PotResult(settings, sequence, currentStreet)
    /\ playerStacks = getPlayerStacks(settings, sequence)
    /\ allIn = FALSE

\* The legend of the node classifies the raise or all-in about to be taken
\* against the sequence that led to the node; taking the action moves to the
\* child, whose sequence has the action appended and whose street is the same
\* or the next one.
TakeAction(player, type, amount, nextStreet) ==
    /\ Len(sequence) < MaxSeq
    /\ nextStreet \in {currentStreet, currentStreet + 1} \cap Streets
    /\ allIn' = IF type \in {"R", "A"}
                THEN isActionAllIn(amount, player, settings, sequence)
                ELSE FALSE
    /\ sequence' = Append(sequence,
           [player |-> player, type |-> type, amount |-> amount,
            street |-> currentStreet])
    /\ currentStreet' = nextStreet
    /\ stackAbsolute' = StackResults(settings, sequence')
    /\ pot' = PotResult(settings, sequence', currentStreet')
    /\ playerStacks' = getPlayerStacks(settings, sequence')
    /\ UNCHANGED settings
    /\ UNCHANGED <<navigatorVars, providerVars, pageVars>>

ReconstructNext ==
    \E e \in Entries, nextStreet \in Streets :
        TakeAction(e[1], e[2], e[3], nextStreet)

Init_Reconstruct == ReconstructInit /\ NavigatorIdle /\ ProviderIdle /\ PageIdle

SpecReconstruct == Init_Reconstruct /\ [][ReconstructNext]_vars

----------------------------------------------------------------------------
(* Trees (types/optimized-tree.ts).  Node ids are strings; Null stands for   *)
(* the falsy values of an absent parent (null) or target (undefined); an     *)
(* absent amt is 0, which is what every reader's `amt || 0` makes of it.     *)

Null == ""

\* a node id that no tree has
AbsentId == "x"

NodeId(i) == ToString(i)

\* CompactTreeUtils.isTerminal: bit 0 of the flags
isTerminal(node) == node.f % 2 = 1

\* The id -> node index of a tree of n nodes "0".."n-1" with root "0": parentOf
\* gives the parent of each node but the root, entry[i] the actions with which
\* the parent of node i leads to it.  An inner node offers a fold that ends
\* play, then the actions to its children in id order; a leaf is terminal.
RECURSIVE ChildActions(_, _, _, _, _)
ChildActions(n, parentOf, entry, i, c) ==
    IF c > n - 1 THEN <<>>
    ELSE (IF parentOf[c] = i THEN entry[c] ELSE <<>>)
         \o ChildActions(n, parentOf, entry, i, c + 1)

RECURSIVE DepthOf(_, _)
DepthOf(parentOf, i) == IF i = 0 THEN 0 ELSE 1 + DepthOf(parentOf, parentOf[i])

BuildNodes(n, parentOf, entry) ==
    [id \in {NodeId(i) : i \in 0..(n - 1)} |->
        LET i == CHOOSE j \in 0..(n - 1) : NodeId(j) = id
            isLeaf == \A c \in 1..(n - 1) : parentOf[c] # i
        IN [id |-> id,
            p |-> IF i = 0 THEN Null ELSE NodeId(parentOf[i]),
            pl |-> DepthOf(parentOf, i) % 2,
            s |-> 0,
            a |-> IF isLeaf THEN <<>>
                  ELSE <<[t |-> "F", amt |-> 0, n |-> Null]>>
                       \o ChildActions(n, parentOf, entry, i, 1),
            d |-> DepthOf(parentOf, i),
            f |-> IF isLeaf THEN 1 ELSE 2]]

\* the ways a parent leads to a child: a call; two raises to the same child;
\* an all-in
EntryActions(kind, child) ==
    IF kind = 0 THEN <<[t |-> "C", amt |-> 0, n |-> child]>>
    ELSE IF kind = 1 THEN <<[t |-> "R", amt |-> 2600, n |-> child],
                            [t |-> "R", amt |-> 6, n |-> child]>>
    ELSE <<[t |-> "A", amt |-> 20, n |-> child]>>

\* node 1 is entered by the raises, node 2 by the all-in, node 3 by the call, ...
EntryOf(c) == EntryActions(c % 3, NodeId(c))

ParentMaps(n) == {pm \in [1..(n - 1) -> 0..(n - 1)] : \A i \in 1..(n - 1) : pm[i] < i}

TreesOfSize(n) ==
    {[nodes |-> BuildNodes(n, pm, [c \in 1..(n - 1) |-> EntryOf(c)]),
      root |-> NodeId(0)] : pm \in ParentMaps(n)}

\* every tree shape of 1 to MaxNodes nodes
WellFormedTrees == UNION {TreesOfSize(n) : n \in 1..MaxNodes}

\* the tree 0 - 1, and three ways in which node 1 is not properly attached: it
\* has no parent link, its parent link names no node, its parent has no action
\* that leads to it
PairNodes == BuildNodes(2, [c \in {1} |-> 0], [c \in {1} |-> EntryOf(c)])

MalformedTrees ==
    {[nodes |-> [PairNodes EXCEPT !["1"].p = Null], root |-> "0"],
     [nodes |-> [PairNodes EXCEPT !["1"].p = AbsentId], root |-> "0"],
     [nodes |-> [PairNodes EXCEPT !["0"].a = <<[t |-> "F", amt |-> 0, n |-> Null]>>],
      root |-> "0"]}

\* the tree 0 - 1, 0 - 2 whose root offers a call that ends play, then a call
\* to node 1, then a call to node 2
ForkNodes ==
    [BuildNodes(3, [c \in {1, 2} |-> 0], [c \in {1, 2} |-> EntryOf(c)])
        EXCEPT !["0"].a = <<[t |-> "C", amt |-> 0, n |-> Null],
                            [t |-> "C", amt |-> 6, n |-> "1"],
                            [t |-> "C", amt |-> 0, n |-> "2"]>>]

\* trees whose flags do not follow the shape: a leaf that is not marked
\* terminal; a root that is marked terminal and has a terminal child
FlagTrees ==
    {[nodes |-> ForkNodes, root |-> "0"],
     [nodes |-> [PairNodes EXCEPT !["1"].f = 0], root |-> "0"],
     [nodes |-> [PairNodes EXCEPT !["0"].f = 1], root |-> "0"]}

\* trees with references that lead nowhere or back: a call of the root to an
\* id that is no node; a call of node 1 back to the root; a declared root that
\* is no node; a declared root that is node 1, the child; a declared root, a
\* parent link and a call of the root that all name no node
BrokenTrees ==
    {[nodes |-> [PairNodes EXCEPT
                    !["0"].a = Append(@, [t |-> "C", amt |-> 0, n |-> AbsentId])],
      root |-> "0"],
     [nodes |-> [PairNodes EXCEPT
                    !["1"].a = <<[t |-> "C", amt |-> 0, n |-> "0"]>>,
                    !["1"].f = 2],
      root |-> "0"],
     [nodes |-> PairNodes, root |-> AbsentId],
     [nodes |-> PairNodes, root |-> "1"],
     [nodes |-> [PairNodes EXCEPT
                    !["0"].a = Append(@, [t |-> "C", amt |-> 0, n |-> AbsentId]),
                    !["1"].p = AbsentId],
      root |-> AbsentId]}

Trees == WellFormedTrees \cup MalformedTrees \cup FlagTrees \cup BrokenTrees

\* the ids a caller asks about: those of the tree and one that it lacks
QueryIds(t) == DOMAIN t.nodes \cup {AbsentId}

\* the action types a caller asks navigateByPath to follow
TypeSeqs == {<<>>, <<"C">>, <<"R", "A">>}

----------------------------------------------------------------------------
(* compact-tree-navigator.ts: CompactTreeNavigator *)

\* the value of nodeCache.get(id) for an id that is not indexed
Undefined == [id |-> Null, p |-> Null, pl |-> -1, s |-> -1, a |-> <<>>, d |-> -1,
              f |-> 0]

buildCache(t) == t.nodes

CacheGet(cache, id) == IF id \in DOMAIN cache THEN cache[id] ELSE Undefined

\* (amount / 1000).toFixed(0) and (amount / 1000000).toFixed(1) round to the
\* nearest, a tie upwards; amounts are whole numbers
formatAmount(amount) ==
    IF amount >= 1000000
    THEN LET tenths == (amount + 50000) \div 100000
         IN ToString(tenths \div 10) \o "." \o ToString(tenths % 10) \o "M"
    ELSE IF amount >= 1000
    THEN ToString((amount + 500) \div 1000) \o "K"
    ELSE ToString(amount)

formatActionLabel(type, amount) ==
    IF type = "F" THEN "Fold"
    ELSE IF type = "C" THEN "Call"
    ELSE IF type = "X" THEN "Check"
    ELSE IF type = "R"
        THEN (IF amount > 0 THEN "Raise " \o formatAmount(amount) ELSE "Raise")
    ELSE type

\* mutant: the last action that leads to the node, not the first
FindActionTo_Last(actions, id) ==
    IF \E i \in DOMAIN actions : actions[i].n = id
    THEN CHOOSE i \in DOMAIN actions :
             actions[i].n = id /\ \A j \in (i + 1)..Len(actions) : actions[j].n # id
    ELSE 0

\* parentNode.a.find(action => action.n === currentNode.id): the index of the
\* first such action, 0 when there is none
FindActionTo(actions, id) ==
    IF \E i \in DOMAIN actions : actions[i].n = id
    THEN CHOOSE i \in DOMAIN actions :
             actions[i].n = id /\ \A j \in 1..(i - 1) : actions[j].n # id
    ELSE 0

\* the while loop of getBreadcrumbs: from currentNode up the parent links;
\* yields the node the loop stopped at and the breadcrumbs collected
RECURSIVE WalkUp(_, _, _)
WalkUp(cache, currentNode, breadcrumbs) ==
    IF currentNode # Undefined /\ currentNode.p # Null
    THEN LET parentNode == CacheGet(cache, currentNode.p)
             k == FindActionTo(parentNode.a, currentNode.id)
         IN IF parentNode = Undefined
            THEN [currentNode |-> currentNode, breadcrumbs |-> breadcrumbs]
            ELSE WalkUp(cache, parentNode,
                     IF k # 0
                     THEN <<[nodeId |-> currentNode.p,
                             label |-> formatActionLabel(parentNode.a[k].t,
                                                         parentNode.a[k].amt),
                             player |-> parentNode.pl,
                             action |-> parentNode.a[k].t]>> \o breadcrumbs
                     ELSE breadcrumbs)
    ELSE [currentNode |-> currentNode, breadcrumbs |-> breadcrumbs]

\* mutant: the entry of the root is left out
BuildBreadcrumbs_NoStart(cache, nodeId) ==
    WalkUp(cache, CacheGet(cache, nodeId), <<>>).breadcrumbs

\* getBreadcrumbs past the cache lookup: the walk, then the root entry
BuildBreadcrumbs(cache, nodeId) ==
    LET w == WalkUp(cache, CacheGet(cache, nodeId), <<>>)
    IN IF w.currentNode # Undefined /\ w.currentNode.p = Null
       THEN <<[nodeId |-> w.currentNode.id, label |-> "Start",
               player |-> w.currentNode.pl, action |-> "ROOT"]>> \o w.breadcrumbs
       ELSE w.breadcrumbs

\* Map.set
CacheSet(cache, key, value) ==
    [id \in DOMAIN cache \cup {key} |-> IF id = key THEN value ELSE cache[id]]

\* mutant: the breadcrumbs are stored under the id of their first entry
StoreBreadcrumbs_AtFirstEntry(bc, nodeId, breadcrumbs) ==
    CacheSet(bc, IF breadcrumbs = <<>> THEN nodeId ELSE breadcrumbs[1].nodeId,
             breadcrumbs)

\* this.breadcrumbCache.set(nodeId, breadcrumbs)
StoreBreadcrumbs(bc, nodeId, breadcrumbs) == CacheSet(bc, nodeId, breadcrumbs)

\* getBreadcrumbs: the value returned and the breadcrumb cache afterwards
getBreadcrumbs(cache, bc, nodeId) ==
    IF nodeId \in DOMAIN bc
    THEN [value |-> bc[nodeId], breadcrumbCache |-> bc]
    ELSE LET breadcrumbs == BuildBreadcrumbs(cache, nodeId)
         IN [value |-> breadcrumbs,
             breadcrumbCache |-> StoreBreadcrumbs(bc, nodeId, breadcrumbs)]

\* the fields of a NavigationAction
NavigationActionOf(action) ==
    [label |-> formatActionLabel(action.t, action.amt),
     targetNode |-> action.n,
     type |-> action.t,
     amount |-> action.amt]

\* mutant: the list is in the reverse of the declared order
getAvailableActions_Reversed(cache, nodeId) ==
    LET node == CacheGet(cache, nodeId)
        withTarget == SelectSeq(node.a, LAMBDA action : action.n # Null)
    IN [i \in DOMAIN withTarget |->
           NavigationActionOf(withTarget[Len(withTarget) + 1 - i])]

\* mutant: the actions without a target are listed too
getAvailableActions_Unfiltered(cache, nodeId) ==
    LET node == CacheGet(cache, nodeId)
    IN [i \in DOMAIN node.a |-> NavigationActionOf(node.a[i])]

\* node.a.filter(action => action.n).map(...)
getAvailableActions(cache, nodeId) ==
    LET node == CacheGet(cache, nodeId)
        withTarget == SelectSeq(node.a, LAMBDA action : action.n # Null)
    IN [i \in DOMAIN withTarget |->
           [label |-> formatActionLabel(withTarget[i].t, withTarget[i].amt),
            targetNode |-> withTarget[i].n,
            type |-> withTarget[i].t,
            amount |-> withTarget[i].amt]]

\* getNavigationPath: isNull is the null return; breadcrumbs and actions are
\* <<>> when not asked for (hasBreadcrumbs, hasActions tell)
getNavigationPath(cache, bc, nodeId, includeBreadcrumbs, includeActions) ==
    IF CacheGet(cache, nodeId) = Undefined
    THEN [value |-> [isNull |-> TRUE, current |-> Null,
                     hasBreadcrumbs |-> FALSE, breadcrumbs |-> <<>>,
                     hasActions |-> FALSE, actions |-> <<>>],
          breadcrumbCache |-> bc]
    ELSE LET b == getBreadcrumbs(cache, bc, nodeId)
         IN [value |-> [isNull |-> FALSE, current |-> nodeId,
                        hasBreadcrumbs |-> includeBreadcrumbs,
                        breadcrumbs |-> IF includeBreadcrumbs THEN b.value ELSE <<>>,
                        hasActions |-> includeActions,
                        actions |-> IF includeActions
                                    THEN getAvailableActions(cache, nodeId)
                                    ELSE <<>>],
             breadcrumbCache |-> IF includeBreadcrumbs THEN b.breadcrumbCache ELSE bc]

\* mutant: the last action of the type that has a target, not the first
FindActionOfType_Last(actions, actionType) ==
    IF \E i \in DOMAIN actions : actions[i].t = actionType /\ actions[i].n # Null
    THEN CHOOSE i \in DOMAIN actions :
             /\ actions[i].t = actionType /\ actions[i].n # Null
             /\ \A j \in (i + 1)..Len(actions) :
                    ~(actions[j].t = actionType /\ actions[j].n # Null)
    ELSE 0

\* node.a.find(a => a.t === actionType && a.n)
FindActionOfType(actions, actionType) ==
    IF \E i \in DOMAIN actions : actions[i].t = actionType /\ actions[i].n # Null
    THEN CHOOSE i \in DOMAIN actions :
             /\ actions[i].t = actionType /\ actions[i].n # Null
             /\ \A j \in 1..(i - 1) : ~(actions[j].t = actionType /\ actions[j].n # Null)
    ELSE 0

\* navigateByPath: isNull is the null return
RECURSIVE navigateByPath(_, _, _)
navigateByPath(cache, currentNodeId, actionTypes) ==
    IF actionTypes = <<>> THEN [isNull |-> FALSE, id |-> currentNodeId]
    ELSE LET node == CacheGet(cache, currentNodeId)
             k == FindActionOfType(node.a, Head(actionTypes))
         IN IF node = Undefined \/ k = 0 THEN [isNull |-> TRUE, id |-> Null]
            ELSE navigateByPath(cache, node.a[k].n, Tail(actionTypes))

\* The object that the name CompactTreeUtils denotes inside
\* compact-tree-navigator.ts: the constant that the file itself declares, with
\* these members.  The class of that name in types/optimized-tree.ts, which has
\* isTerminal, is not among the file's imports.
CompactTreeUtils == {"convertToCompact", "calculateSizeReduction", "validateCompactTree"}

\* CompactTreeUtils.isTerminal(node) as getTerminalNodes evaluates it: calling
\* a member that the object lacks throws a TypeError
CallIsTerminal(node) ==
    IF "isTerminal" \in CompactTreeUtils
    THEN [threw |-> FALSE, value |-> isTerminal(node)]
    ELSE [threw |-> TRUE, value |-> FALSE]

\* mutant: the id is not added to the visited set
MarkVisited_Never(acc, nodeId) == [acc EXCEPT !.expanded = Append(@, nodeId)]

\* visited.add(nodeId); expanded lists the ids that passed the visited test
MarkVisited(acc, nodeId) ==
    [acc EXCEPT !.visited = @ \cup {nodeId}, !.expanded = Append(@, nodeId)]

\* traverse of getTerminalNodes; acc is [visited, expanded, terminals, threw].
\* TraverseEach is the forEach over the actions of a node that is not terminal;
\* an exception ends the whole call.
RECURSIVE traverse(_, _, _)
RECURSIVE TraverseEach(_, _, _)
traverse(cache, acc, nodeId) ==
    IF nodeId \in acc.visited THEN acc
    ELSE LET seen == MarkVisited(acc, nodeId)
             node == CacheGet(cache, nodeId)
             terminal == CallIsTerminal(node)
         IN IF node = Undefined THEN seen
            ELSE IF terminal.threw THEN [seen EXCEPT !.threw = TRUE]
            ELSE IF terminal.value
            THEN [seen EXCEPT !.terminals = Append(@, nodeId)]
            ELSE TraverseEach(cache, seen, node.a)

TraverseEach(cache, acc, actions) ==
    IF actions = <<>> \/ acc.threw THEN acc
    ELSE TraverseEach(cache,
             IF Head(actions).n # Null THEN traverse(cache, acc, Head(actions).n)
             ELSE acc,
             Tail(actions))

\* getTerminalNodes: threw tells that the call ended with an exception, and
\* then there is no value; visited and expanded are the bookkeeping of the call
getTerminalNodes(cache, startNodeId) ==
    LET r == traverse(cache, [visited |-> {}, expanded |-> <<>>,
                              terminals |-> <<>>, threw |-> FALSE], startNodeId)
    IN [threw |-> r.threw,
        terminals |-> IF r.threw THEN <<>> ELSE r.terminals,
        visited |-> r.visited,
        expanded |-> r.expanded]

PathSeparator == " -> "

\* breadcrumbs.slice(1).map(b => b.label).join(separator)
RECURSIVE JoinLabels(_)
JoinLabels(breadcrumbs) ==
    IF breadcrumbs = <<>> THEN ""
    ELSE IF Len(breadcrumbs) = 1 THEN breadcrumbs[1].label
    ELSE breadcrumbs[1].label \o PathSeparator \o JoinLabels(Tail(breadcrumbs))

\* mutant: the entry of the root is joined with the others
getNodePath_KeepsStart(cache, pc, bc, nodeId) ==
    IF nodeId \in DOMAIN pc
    THEN [value |-> pc[nodeId], pathCache |-> pc, breadcrumbCache |-> bc]
    ELSE LET b == getBreadcrumbs(cache, bc, nodeId)
             path == IF Len(b.value) > 1 THEN JoinLabels(b.value) ELSE "Root"
         IN [value |-> path,
             pathCache |-> CacheSet(pc, nodeId, path),
             breadcrumbCache |-> b.breadcrumbCache]

\* getNodePath: the value returned and both caches afterwards
getNodePath(cache, pc, bc, nodeId) ==
    IF nodeId \in DOMAIN pc
    THEN [value |-> pc[nodeId], pathCache |-> pc, breadcrumbCache |-> bc]
    ELSE LET b == getBreadcrumbs(cache, bc, nodeId)
             path == IF Len(b.value) > 1 THEN JoinLabels(Tail(b.value)) ELSE "Root"
         IN [value |-> path,
             pathCache |-> CacheSet(pc, nodeId, path),
             breadcrumbCache |-> b.breadcrumbCache]

EmptyCache == [id \in {} |-> <<>>]

\* breadcrumbs.forEach of SpotPage.buildNavigationPath: the nodes that the
\* nodeIds of the breadcrumbs name, those that name none left out
RECURSIVE BreadcrumbNodes(_, _)
BreadcrumbNodes(nodes, breadcrumbs) ==
    IF breadcrumbs = <<>> THEN <<>>
    ELSE (IF Head(breadcrumbs).nodeId \in DOMAIN nodes
          THEN <<nodes[Head(breadcrumbs).nodeId]>>
          ELSE <<>>)
         \o BreadcrumbNodes(nodes, Tail(breadcrumbs))

\* SpotPage.buildNavigationPath for a spot that has the tree t: a navigator of
\* its own, the nodes of its breadcrumbs, then the node itself unless a node of
\* the path has its id
buildNavigationPath(t, nodeId) ==
    LET breadcrumbs == getBreadcrumbs(buildCache(t), EmptyCache, nodeId).value
        path == BreadcrumbNodes(t.nodes, breadcrumbs)
    IN IF nodeId \in DOMAIN t.nodes
          /\ ~\E i \in DOMAIN path : path[i].id = nodeId
       THEN Append(path, t.nodes[nodeId])
       ELSE path

\* getTreeStats: the first statistic after the node count calls
\* CompactTreeUtils.isTerminal for every indexed node, so with this file's
\* CompactTreeUtils the call throws unless the index is empty; the statistics
\* computed from the tree's meta data and hand-data flags are not modelled
getTreeStats(cache, pc, bc) ==
    IF \E id \in DOMAIN cache : CallIsTerminal(cache[id]).threw
    THEN [threw |-> TRUE, totalNodes |-> 0, terminalNodes |-> 0,
          cacheStats |-> [pathCache |-> 0, breadcrumbCache |-> 0]]
    ELSE [threw |-> FALSE,
          totalNodes |-> Cardinality(DOMAIN cache),
          terminalNodes |->
              Cardinality({id \in DOMAIN cache : CallIsTerminal(cache[id]).value}),
          cacheStats |-> [pathCache |-> Cardinality(DOMAIN pc),
                          breadcrumbCache |-> Cardinality(DOMAIN bc)]]

\* Object.keys / Object.entries of the node index: ids that are array indices
\* come in ascending order
ObjectKeys(nodes) == [i \in 1..Cardinality(DOMAIN nodes) |-> NodeId(i - 1)]

\* node.a.forEach((action, index) => ...) of validateCompactTree, from index on
\* (index counts from 0)
RECURSIVE ActionErrors(_, _, _, _)
ActionErrors(nodeIds, nodeId, actions, index) ==
    IF index >= Len(actions) THEN <<>>
    ELSE LET action == actions[index + 1]
         IN (IF action.n # Null /\ action.n \notin nodeIds
             THEN <<"Node " \o nodeId \o " action " \o ToString(index)
                    \o " references non-existent node " \o action.n>>
             ELSE <<>>)
            \o ActionErrors(nodeIds, nodeId, actions, index + 1)

\* the body of the forEach over the nodes
NodeErrors(nodeIds, nodeId, node) ==
    (IF node.p # Null /\ node.p \notin nodeIds
     THEN <<"Node " \o nodeId \o " references non-existent parent " \o node.p>>
     ELSE <<>>)
    \o ActionErrors(nodeIds, nodeId, node.a, 0)

RECURSIVE EachNodeErrors(_, _, _)
EachNodeErrors(nodeIds, nodes, keys) ==
    IF keys = <<>> THEN <<>>
    ELSE NodeErrors(nodeIds, Head(keys), nodes[Head(keys)])
         \o EachNodeErrors(nodeIds, nodes, Tail(keys))

\* the errors that validateCompactTree collects, in order
CollectErrors(t) ==
    LET nodeIds == DOMAIN t.nodes
    IN (IF t.root \notin nodeIds
        THEN <<"Root node " \o t.root \o " not found">>
        ELSE <<>>)
       \o EachNodeErrors(nodeIds, t.nodes, ObjectKeys(t.nodes))

\* mutant: validation stops at the first error
validateCompactTree_StopsAtFirst(t) ==
    LET all == CollectErrors(t)
        errors == IF all = <<>> THEN <<>> ELSE <<Head(all)>>
    IN [isValid |-> Len(errors) = 0, errors |-> errors]

validateCompactTree(t) ==
    LET errors == CollectErrors(t)
    IN [isValid |-> Len(errors) = 0, errors |-> errors]

----------------------------------------------------------------------------
(* A navigator and its callers *)

NavigatorInit ==
    /\ tree \in Trees
    /\ nodeCache = buildCache(tree)
    /\ pathCache = EmptyCache
    /\ breadcrumbCache = EmptyCache
    /\ ret = [op |-> "constructor", arg |-> <<>>, value |-> [threw |-> FALSE]]

GetBreadcrumbs(nodeId) ==
    LET r == getBreadcrumbs(nodeCache, breadcrumbCache, nodeId)
    IN /\ ret' = [op |-> "getBreadcrumbs", arg |-> <<nodeId>>, value |-> r.value]
       /\ breadcrumbCache' = r.breadcrumbCache
       /\ UNCHANGED <<tree, nodeCache, pathCache>>
       /\ UNCHANGED <<reconstructVars, providerVars, pageVars>>

GetNodePath(nodeId) ==
    LET r == getNodePath(nodeCache, pathCache, breadcrumbCache, nodeId)
    IN /\ ret' = [op |-> "getNodePath", arg |-> <<nodeId>>, value |-> r.value]
       /\ pathCache' = r.pathCache
       /\ breadcrumbCache' = r.breadcrumbCache
       /\ UNCHANGED <<tree, nodeCache>>
       /\ UNCHANGED <<reconstructVars, providerVars, pageVars>>

GetNavigationPath(nodeId, includeBreadcrumbs, includeActions) ==
    LET r == getNavigationPath(nodeCache, breadcrumbCache, nodeId,
                               includeBreadcrumbs, includeActions)
    IN /\ ret' = [op |-> "getNavigationPath",
                  arg |-> <<nodeId, includeBreadcrumbs, includeActions>>,
                  value |-> r.value]
       /\ breadcrumbCache' = r.breadcrumbCache
       /\ UNCHANGED <<tree, nodeCache, pathCache>>
       /\ UNCHANGED <<reconstructVars, providerVars, pageVars>>

NavigateByPath(startNodeId, actionTypes) ==
    /\ ret' = [op |-> "navigateByPath", arg |-> <<startNodeId, actionTypes>>,
               value |-> navigateByPath(nodeCache, startNodeId, actionTypes)]
    /\ UNCHANGED <<tree, nodeCache, pathCache, breadcrumbCache>>
    /\ UNCHANGED <<reconstructVars, providerVars, pageVars>>

\* mutant: the call marks the start node terminal in the index and the tree
GetTerminalNodes_FlagsStart(startNodeId) ==
    /\ ret' = [op |-> "getTerminalNodes", arg |-> <<startNodeId>>,
               value |-> getTerminalNodes(nodeCache, startNodeId)]
    /\ nodeCache' = IF startNodeId \in DOMAIN nodeCache
                    THEN [nodeCache EXCEPT ![startNodeId].f = 1]
                    ELSE nodeCache
    /\ tree' = [tree EXCEPT !.nodes = nodeCache']
    /\ UNCHANGED <<pathCache, breadcrumbCache>>
    /\ UNCHANGED <<reconstructVars, providerVars, pageVars>>

GetTerminalNodes(startNodeId) ==
    /\ ret' = [op |-> "getTerminalNodes", arg |-> <<startNodeId>>,
               value |-> getTerminalNodes(nodeCache, startNodeId)]
    /\ UNCHANGED <<tree, nodeCache, pathCache, breadcrumbCache>>
    /\ UNCHANGED <<reconstructVars, providerVars, pageVars>>

\* the effect of SpotPage that follows the current node
BuildNavigationPath(nodeId) ==
    /\ ret' = [op |-> "buildNavigationPath", arg |-> <<nodeId>>,
               value |-> buildNavigationPath(tree, nodeId)]
    /\ UNCHANGED <<tree, nodeCache, pathCache, breadcrumbCache>>
    /\ UNCHANGED <<reconstructVars, providerVars, pageVars>>

GetTreeStats ==
    /\ ret' = [op |-> "getTreeStats", arg |-> <<>>,
               value |-> getTreeStats(nodeCache, pathCache, breadcrumbCache)]
    /\ UNCHANGED <<tree, nodeCache, pathCache, breadcrumbCache>>
    /\ UNCHANGED <<reconstructVars, providerVars, pageVars>>

ValidateCompactTree ==
    /\ ret' = [op |-> "validateCompactTree", arg |-> <<>>,
               value |-> validateCompactTree(tree)]
    /\ UNCHANGED <<tree, nodeCache, pathCache, breadcrumbCache>>
    /\ UNCHANGED <<reconstructVars, providerVars, pageVars>>

\* mutant: the node index is dropped with the caches
ClearCaches_DropsIndex ==
    /\ pathCache' = EmptyCache
    /\ breadcrumbCache' = EmptyCache
    /\ nodeCache' = EmptyCache
    /\ ret' = [op |-> "clearCaches", arg |-> <<>>, value |-> <<>>]
    /\ UNCHANGED tree
    /\ UNCHANGED <<reconstructVars, providerVars, pageVars>>

ClearCaches ==
    /\ pathCache' = EmptyCache
    /\ breadcrumbCache' = EmptyCache
    /\ ret' = [op |-> "clearCaches", arg |-> <<>>, value |-> <<>>]
    /\ UNCHANGED <<tree, nodeCache>>
    /\ UNCHANGED <<reconstructVars, providerVars, pageVars>>

NavigatorNext ==
    \/ \E nodeId \in QueryIds(tree) : GetBreadcrumbs(nodeId)
    \/ \E nodeId \in QueryIds(tree) : GetNodePath(nodeId)
    \/ \E nodeId \in QueryIds(tree), ib \in BOOLEAN, ia \in BOOLEAN :
           GetNavigationPath(nodeId, ib, ia)
    \/ \E nodeId \in QueryIds(tree), types \in TypeSeqs :
           NavigateByPath(nodeId, types)
    \/ \E nodeId \in QueryIds(tree) : GetTerminalNodes(nodeId)
    \/ \E nodeId \in QueryIds(tree) : BuildNavigationPath(nodeId)
    \/ GetTreeStats
    \/ ValidateCompactTree
    \/ ClearCaches

\* the table view is not part of the navigator
ReconstructIdle ==
    /\ settings = HeadsUp200
    /\ sequence = <<>>
    /\ currentStreet = 0
    /\ stackAbsolute = StackResults(settings, sequence)
    /\ pot = PotResult(settings, sequence, currentStreet)
    /\ playerStacks = getPlayerStacks(settings, sequence)
    /\ allIn = FALSE

Init_Navigator == NavigatorInit /\ ReconstructIdle /\ ProviderIdle /\ PageIdle

SpecNavigator == Init_Navigator /\ [][NavigatorNext]_vars

----------------------------------------------------------------------------
(* SpotPage.tsx: SpotPage, the current node and its node data *)

\* calls of fetchNodeDataFromZip that are awaited at one time
MaxFetches == 3

\* the node ids that the location names
PageNodes == {"0", "1", "2"}

\* the nodes that have a file nodes/<id>.json in the ZIP of the spot
ZipNodes == {"0", "1"}

\* what fetchNodeDataFromZip resolves to for a node: the parsed node file, or
\* null when the ZIP has no file for it
NodeDataOf(nodeId) == IF nodeId \in ZipNodes THEN "data of node " \o nodeId ELSE "null"

RemoveAt(seq, i) == SubSeq(seq, 1, i - 1) \o SubSeq(seq, i + 1, Len(seq))

\* the effect with the dependencies [currentNode, spot, fetchNodeDataFromZip],
\* up to its await: without a spot that has a ZIP path (or without a node id)
\* the display is cleared, otherwise a fetch for the node is started
FetchCurrentNodeData(spotNow, nodeId) ==
    IF ~spotNow.loaded \/ nodeId = ""
    THEN /\ CNodeData' = "null"
         /\ isLoadingNodeData' = FALSE
         /\ UNCHANGED nodeFetches
    ELSE /\ Len(nodeFetches) < MaxFetches
         /\ isLoadingNodeData' = TRUE
         /\ nodeFetches' = Append(nodeFetches, nodeId)
         /\ UNCHANGED CNodeData

\* the page after its first render and effects: no spot yet, node '0'
PageInit ==
    /\ spot = [loaded |-> FALSE]
    /\ pageCurrentNode = "0"
    /\ CNodeData = "null"
    /\ isLoadingNodeData = FALSE
    /\ nodeFetches = <<>>

\* location.search names another node: setCurrentNode, then the effect
SetCurrentNode(nodeId) ==
    /\ nodeId # pageCurrentNode
    /\ pageCurrentNode' = nodeId
    /\ FetchCurrentNodeData(spot, nodeId)
    /\ UNCHANGED spot
    /\ UNCHANGED <<reconstructVars, navigatorVars, providerVars>>

\* loadFullSpot received the full spot: setSpot with a new object, then the
\* effect
SetSpot ==
    /\ spot' = [loaded |-> TRUE]
    /\ FetchCurrentNodeData(spot', pageCurrentNode)
    /\ UNCHANGED pageCurrentNode
    /\ UNCHANGED <<reconstructVars, navigatorVars, providerVars>>

\* the provider rendered again: fetchNodeDataFromZip is a new function, so the
\* effect runs again
ProviderRendered ==
    /\ spot.loaded
    /\ FetchCurrentNodeData(spot, pageCurrentNode)
    /\ UNCHANGED <<spot, pageCurrentNode>>
    /\ UNCHANGED <<reconstructVars, navigatorVars, providerVars>>

\* the i-th awaited fetch resolves: setCNodeData(nodeData), loading ends
FetchResolves(i) ==
    /\ i \in DOMAIN nodeFetches
    /\ CNodeData' = NodeDataOf(nodeFetches[i])
    /\ isLoadingNodeData' = FALSE
    /\ nodeFetches' = RemoveAt(nodeFetches, i)
    /\ UNCHANGED <<spot, pageCurrentNode>>
    /\ UNCHANGED <<reconstructVars, navigatorVars, providerVars>>

SpotPageNext ==
    \/ \E nodeId \in PageNodes : SetCurrentNode(nodeId)
    \/ SetSpot
    \/ ProviderRendered
    \/ \E i \in 1..MaxFetches : FetchResolves(i)

Init_SpotPage ==
    /\ PageInit
    /\ ReconstructIdle /\ NavigatorIdle /\ ProviderIdle

SpecSpotPage == Init_SpotPage /\ [][SpotPageNext]_vars

----------------------------------------------------------------------------
(* SpotPage.tsx: DataProvider, its tree cache and processSettingsData *)

\* renders of the provider
MaxRenders == 3
\* downloads of one locator
MaxDownloads == 2
\* downloads awaited at one time
MaxInFlight == 2

\* tree_storage_path values
Locators == {"trees/a.json", "trees/b.json"}

\* An optional field of the raw settings is <<>> when it is absent (or null)
\* and <<v>> when it holds the object or array v.
Absent == <<>>
Present(v) == <<v>>

\* `field || fallback` for a field that holds an object or an array: every
\* object and array is truthy, the empty array included
OrDefault(field, fallback) == IF Len(field) = 0 THEN fallback ELSE field[1]

\* `array[i] || fallback` for an array of numbers (i counted from 1): an index
\* past the end reads undefined, and 0 is falsy like undefined
EntryOr(array, i, fallback) ==
    IF i \in DOMAIN array /\ array[i] # 0 THEN array[i] ELSE fallback

DefaultBlinds == <<100000, 50000, 0>>
DefaultStacks == <<4000000, 4000000>>

\* the object {} read for a missing handdata
EmptyHanddata == [blinds |-> Absent, stacks |-> Absent]

\* the longest blinds array of the raw settings
MaxBlinds == 3
BlindAmounts == {0, 100, 200}
RawBlinds ==
    {Absent} \cup {Present(b) : b \in UNION {[1..n -> BlindAmounts] : n \in 0..MaxBlinds}}
RawStacks ==
    {Absent} \cup {Present(st) : st \in {<<>>, <<500, 500>>, <<500, 0, 500>>}}

\* raw settings: null, an object without handdata, or an object whose
\* handdata may lack blinds and stacks
RawSettings ==
    {[isNull |-> TRUE, handdata |-> Absent], [isNull |-> FALSE, handdata |-> Absent]}
    \cup {[isNull |-> FALSE, handdata |-> Present([blinds |-> b, stacks |-> st])] :
              b \in RawBlinds, st \in RawStacks}

\* processSettingsData with `??` in place of `||` for the blinds entries: a
\* zero entry is kept
processSettingsData_KeepsZero(rawSettings) ==
    LET handdata == IF rawSettings.isNull THEN EmptyHanddata
                    ELSE OrDefault(rawSettings.handdata, EmptyHanddata)
        blindsArray == OrDefault(handdata.blinds, DefaultBlinds)
        stacks == OrDefault(handdata.stacks, DefaultStacks)
        Entry(i, fallback) == IF i \in DOMAIN blindsArray THEN blindsArray[i] ELSE fallback
    IN  [blinds |-> [bb |-> Entry(1, 100000), sb |-> Entry(2, 50000), ante |-> Entry(3, 0)],
         stacks |-> stacks,
         playerCount |-> Len(stacks)]

\* processSettingsData, the blinds, stacks and playerCount of its result (the
\* other fields are each `field || constant` of one raw field)
processSettingsData(rawSettings) ==
    LET handdata == IF rawSettings.isNull THEN EmptyHanddata
                    ELSE OrDefault(rawSettings.handdata, EmptyHanddata)
        blindsArray == OrDefault(handdata.blinds, DefaultBlinds)
        stacks == OrDefault(handdata.stacks, DefaultStacks)
    IN  [blinds |-> [bb |-> EntryOr(blindsArray, 1, 100000),
                     sb |-> EntryOr(blindsArray, 2, 50000),
                     ante |-> EntryOr(blindsArray, 3, 0)],
         stacks |-> stacks,
         playerCount |-> Len(stacks)]

\* the provider after its first render: one empty Map, nothing downloaded
ProviderInit ==
    /\ providerRender = 1
    /\ optimizedTreeCache = <<{}>>
    /\ downloads = [path \in Locators |-> 0]
    /\ treeRequests = <<>>
    /\ fullSpot = [op |-> "none"]
    /\ processedSettings = [op |-> "none"]

\* optimizedTreeCache.has(path) in the Map that the current render created
Cached(path) == path \in optimizedTreeCache[providerRender]

\* fetchOptimizedTreeFromStorage on a miss, up to its await: the download
\* starts; the call keeps the Map of the render that created the function
StartDownload(caller, path) ==
    /\ Len(treeRequests) < MaxInFlight
    /\ downloads[path] < MaxDownloads
    /\ downloads' = [downloads EXCEPT ![path] = @ + 1]
    /\ treeRequests' = Append(treeRequests,
                              [path |-> path, render |-> providerRender, caller |-> caller])

\* the PokerSpot that fetchFullSpot returns, its tree data (its settings are
\* processSettingsData of the settings of the row, see ProcessSettingsData)
FullSpotOf(treeData) == [op |-> "fetchFullSpot", optimizedTreeData |-> treeData]

\* the provider renders again; the body creates a new empty Map
RenderAgain(cacheNow) ==
    /\ providerRender < MaxRenders
    /\ providerRender' = providerRender + 1
    /\ optimizedTreeCache' = Append(cacheNow, {})

\* fetchFullSpot of a spot stored with this tree path, up to the await of the
\* download
FetchFullSpot(path) ==
    /\ IF Cached(path)
       THEN /\ fullSpot' = FullSpotOf(path)
            /\ UNCHANGED <<downloads, treeRequests>>
       ELSE /\ StartDownload("fetchFullSpot", path)
            /\ UNCHANGED fullSpot
    /\ UNCHANGED <<providerRender, optimizedTreeCache>>
    /\ UNCHANGED <<processedSettings, reconstructVars, navigatorVars, pageVars>>

\* addSpot of a spot with this tree path, up to the await of the download; on
\* a hit it goes on to setSpots, and the provider renders again
AddSpot(path) ==
    /\ IF Cached(path)
       THEN /\ RenderAgain(optimizedTreeCache)
            /\ UNCHANGED <<downloads, treeRequests>>
       ELSE /\ StartDownload("addSpot", path)
            /\ UNCHANGED <<providerRender, optimizedTreeCache>>
    /\ UNCHANGED fullSpot
    /\ UNCHANGED <<processedSettings, reconstructVars, navigatorVars, pageVars>>

\* what the caller does with the tree (or undefined) once the fetch returned
Deliver(request, treeData, cacheNow) ==
    IF request.caller = "fetchFullSpot"
    THEN /\ fullSpot' = FullSpotOf(treeData)
         /\ optimizedTreeCache' = cacheNow
         /\ UNCHANGED providerRender
    ELSE /\ RenderAgain(cacheNow)
         /\ UNCHANGED fullSpot

\* the i-th awaited download succeeds: the tree is parsed and set in the Map
\* the call holds, then handed to the caller
DownloadCompletes(i) ==
    /\ i \in DOMAIN treeRequests
    /\ LET request == treeRequests[i]
       IN  Deliver(request, request.path,
                   [optimizedTreeCache EXCEPT ![request.render] = @ \cup {request.path}])
    /\ treeRequests' = RemoveAt(treeRequests, i)
    /\ UNCHANGED downloads
    /\ UNCHANGED <<processedSettings, reconstructVars, navigatorVars, pageVars>>

\* the i-th awaited download fails: null is returned and nothing is cached
DownloadFails(i) ==
    /\ i \in DOMAIN treeRequests
    /\ Deliver(treeRequests[i], "undefined", optimizedTreeCache)
    /\ treeRequests' = RemoveAt(treeRequests, i)
    /\ UNCHANGED downloads
    /\ UNCHANGED <<processedSettings, reconstructVars, navigatorVars, pageVars>>

\* a state change of the provider itself (setIsLoading in loadSpots, setSpots
\* from the realtime channel): it renders again
ProviderRender ==
    /\ RenderAgain(optimizedTreeCache)
    /\ UNCHANGED <<downloads, treeRequests, fullSpot>>
    /\ UNCHANGED <<processedSettings, reconstructVars, navigatorVars, pageVars>>

ProviderNext ==
    \/ \E path \in Locators : FetchFullSpot(path)
    \/ \E path \in Locators : AddSpot(path)
    \/ \E i \in 1..MaxInFlight : DownloadCompletes(i)
    \/ \E i \in 1..MaxInFlight : DownloadFails(i)
    \/ ProviderRender

Init_Provider ==
    /\ ProviderInit
    /\ ReconstructIdle /\ NavigatorIdle /\ PageIdle

SpecProvider == Init_Provider /\ [][ProviderNext]_vars

\* processSettingsData called with raw settings (by fetchFullSpot on the
\* settings of the row, by importSpot on the settings file)
ProcessSettingsData(rawSettings) ==
    /\ processedSettings' = [op |-> "processSettingsData",
                             raw |-> rawSettings,
                             settings |-> processSettingsData(rawSettings)]
    /\ UNCHANGED <<providerRender, optimizedTreeCache, downloads, treeRequests, fullSpot>>
    /\ UNCHANGED <<reconstructVars, navigatorVars, pageVars>>

SettingsNext == \E rawSettings \in RawSettings : ProcessSettingsData(rawSettings)

Init_Settings ==
    /\ ProviderInit
    /\ ReconstructIdle /\ NavigatorIdle /\ PageIdle

SpecSettings == Init_Settings /\ [][SettingsNext]_vars

----------------------------------------------------------------------------
(* Game-state reconstruction: vocabulary of the properties *)

\* the seats that post the blinds at a table of n players (n in 2..9)
SmallBlindSeat(n) == n - 2
BigBlindSeat(n) == n - 1

PostedBlind(st, p) ==
    IF p = SmallBlindSeat(st.playerCount) THEN st.blinds.sb
    ELSE IF p = BigBlindSeat(st.playerCount) THEN st.blinds.bb
    ELSE 0

RECURSIVE SumAmounts(_, _)
SumAmounts(actions, I) ==
    IF I = {} THEN 0
    ELSE LET i == CHOOSE j \in I : TRUE
         IN actions[i].amount + SumAmounts(actions, I \ {i})

\* the entries of p that move chips according to the stack function
StackEntries(actions, p) ==
    {i \in DOMAIN actions :
        actions[i].player = p /\ actions[i].type \in {"C", "R", "A"}}

\* the entries that move chips according to the pot function
PotEntries(actions) ==
    {i \in DOMAIN actions :
        actions[i].type \notin {"F", "X"} /\ actions[i].amount > 0}

\* those of p on street s
StreetEntries(actions, p, s) ==
    {i \in PotEntries(actions) : actions[i].player = p /\ actions[i].street = s}

Seats == 0..(settings.playerCount - 1)

RaiseSixCallRaiseTwenty ==
    <<[player |-> 0, type |-> "R", amount |-> 6, street |-> 0],
      [player |-> 1, type |-> "C", amount |-> 6, street |-> 0],
      [player |-> 0, type |-> "R", amount |-> 20, street |-> 0]>>

RaiseTen == <<[player |-> 0, type |-> "R", amount |-> 10, street |-> 0]>>

\* the street contribution of seat p as a closed form: the blind the seat was
\* seeded with, or the amount of its last raise of the street, plus its calls
\* of the street after that
StreetContribution(st, actions, s, p) ==
    LET I == StreetEntries(actions, p, s)
        raises == {i \in I : actions[i].type = "R"}
        lastRaise == IF raises = {} THEN 0
                     ELSE CHOOSE i \in raises : \A j \in raises : j <= i
        base == IF lastRaise = 0
                THEN (IF s = 0 THEN PostedBlind(st, p) ELSE 0)
                ELSE actions[lastRaise].amount
    IN base + SumAmounts(actions, {i \in I : i > lastRaise /\ actions[i].type = "C"})

----------------------------------------------------------------------------
(* Claims C1 - C6 *)

\* C1 (as stated): for every seat p the stack is
\* max(0, stacks[p] - sb at the small-blind seat - bb at the big-blind seat
\*        - ante if ante > 0 - the amounts of p's call, raise and all-in entries),
\* and it is never negative.
C1_StackIsStartMinusWagers ==
    \A p \in Seats :
        /\ stackAbsolute[p].value >= 0
        /\ stackAbsolute[p].value =
               Max(0, settings.stacks[p + 1]
                      - PostedBlind(settings, p)
                      - (IF settings.blinds.ante > 0 THEN settings.blinds.ante ELSE 0)
                      - SumAmounts(sequence, StackEntries(sequence, p)))

\* C2 (amended): at the 2-handed table with stacks 200/200 and blinds 1/2 the
\* stacks at the root are 199 and 198; after seat 0 raises 10 its stack is 189
\* (the blind it posted and the raise are both taken off) and the raise was
\* not classified as an all-in.
C2_HeadsUpExample ==
    settings = HeadsUp200 =>
        /\ sequence = <<>> =>
               stackAbsolute[0].value = 199 /\ stackAbsolute[1].value = 198
        /\ sequence = RaiseTen =>
               stackAbsolute[0].value = 189 /\ allIn = FALSE

\* C2 (as stated): ... after seat 0 raises 10 its stack is 190 ...
C2_ExampleAsStated ==
    settings = HeadsUp200 =>
        /\ sequence = <<>> =>
               stackAbsolute[0].value = 199 /\ stackAbsolute[1].value = 198
        /\ sequence = RaiseTen =>
               stackAbsolute[0].value = 190 /\ allIn = FALSE

C2_Witness == settings = HeadsUp200 /\ sequence = RaiseTen

\* C3 (amended): the street contribution of every seat is its seeded blind, or
\* the amount of its last raise of the current street, plus its later calls of
\* the current street; folds, checks, all-ins, zero amounts, entries of other
\* streets and of other seats leave it alone.  After raise 6, call 6, raise 20
\* on street 0, seat 0 has 20 and seat 1 has 6 plus the blind it posted.
C3_CallAddsRaiseReplaces ==
    /\ \A p \in Seats :
           pot.value.playerCurrentStreetContributions[p + 1] =
               StreetContribution(settings, sequence, currentStreet, p)
    /\ (sequence = RaiseSixCallRaiseTwenty /\ currentStreet = 0) =>
           /\ pot.value.playerCurrentStreetContributions[1] = 20
           /\ pot.value.playerCurrentStreetContributions[2] =
                  6 + PostedBlind(settings, 1)

C3_Witness ==
    /\ sequence = RaiseSixCallRaiseTwenty
    /\ currentStreet = 0
    /\ pot.value.playerCurrentStreetContributions[1] = 20
    /\ pot.value.playerCurrentStreetContributions[2] = 6

\* C3 (as stated): after raise 6, call 6, raise 20 on street 0 seat 0 has a
\* street contribution of 20 and seat 1 one of 6.
C3_ExampleAsStated ==
    (sequence = RaiseSixCallRaiseTwenty /\ currentStreet = 0) =>
        /\ pot.value.playerCurrentStreetContributions[1] = 20
        /\ pot.value.playerCurrentStreetContributions[2] = 6

\* C4: the pot is the antes of all seats (if ante > 0) plus both blinds plus
\* every wagered amount of the sequence; a seat's total contribution is its
\* blind plus its own wagered amounts; and a seat that has not wagered on the
\* current street has its blind as street contribution on street 0 and nothing
\* on a later street.
C4_PotAndTotals ==
    /\ pot.value.totalPot =
           (IF settings.blinds.ante > 0
            THEN settings.blinds.ante * settings.playerCount ELSE 0)
           + settings.blinds.sb + settings.blinds.bb
           + SumAmounts(sequence, PotEntries(sequence))
    /\ \A p \in Seats :
           /\ pot.value.playerTotalContributions[p + 1] =
                  PostedBlind(settings, p)
                  + SumAmounts(sequence,
                        {i \in PotEntries(sequence) : sequence[i].player = p})
           /\ StreetEntries(sequence, p, currentStreet) = {} =>
                  pot.value.playerCurrentStreetContributions[p + 1] =
                      (IF currentStreet = 0 THEN PostedBlind(settings, p) ELSE 0)

C4_Witness ==
    /\ settings.blinds.ante > 0
    /\ currentStreet = 1
    /\ \E i \in DOMAIN sequence : sequence[i].type = "F" /\ sequence[i].amount > 0
    /\ \E i \in PotEntries(sequence) : sequence[i].player = SmallBlindSeat(settings.playerCount)
    /\ pot.value.playerCurrentStreetContributions[SmallBlindSeat(settings.playerCount) + 1] = 0

\* C5: the classification shown for a raise or all-in is "all-in" exactly when
\* its amount is at least the acting player's stack computed from the sequence
\* before the action.
C5_AllInIffAmountCoversStack ==
    sequence # <<>> =>
        LET last == sequence[Len(sequence)]
            before == SubSeq(sequence, 1, Len(sequence) - 1)
        IN last.type \in {"R", "A"} =>
               (allIn <=>
                   last.amount >=
                       calculatePlayerStackAbsolute(last.player, settings, before))

\* a raise of exactly the remaining stack, and it is classified as an all-in
C5_Witness ==
    /\ sequence # <<>>
    /\ sequence[Len(sequence)].type = "R"
    /\ sequence[Len(sequence)].amount =
           calculatePlayerStackAbsolute(sequence[Len(sequence)].player, settings,
               SubSeq(sequence, 1, Len(sequence) - 1))
    /\ allIn

\* C6 (as stated): a player index outside 0..playerCount-1 makes the stack
\* function and the pot function signal an error.
C6_OutOfRangeSignalled ==
    /\ \A p \in QueryPlayers : p >= settings.playerCount => stackAbsolute[p].threw
    /\ (\E i \in DOMAIN sequence : sequence[i].player >= settings.playerCount) =>
           pot.threw

----------------------------------------------------------------------------
(* Navigator: vocabulary of the properties *)

\* the targets of the actions of a node
Targets(t, id) ==
    {t.nodes[id].a[i].n : i \in DOMAIN t.nodes[id].a} \ {Null}

\* the nodes reached from the set S by following action targets
RECURSIVE ReachedFrom(_, _)
ReachedFrom(t, S) ==
    LET next == S \cup UNION {Targets(t, id) : id \in S \cap DOMAIN t.nodes}
    IN IF next = S THEN S ELSE ReachedFrom(t, next)

\* n is reached from m by one action or more
Leads(t, m, n) ==
    m \in DOMAIN t.nodes /\ n \in ReachedFrom(t, Targets(t, m))

\* the tree invariant of the data model: the root is a node without parent and
\* the only one; ids are the keys; parents and targets are nodes; a node is a
\* target of its parent and of no other node; depths count the steps from the
\* root, so that no parent chain is a cycle
ValidTree(t) ==
    /\ t.root \in DOMAIN t.nodes
    /\ \A id \in DOMAIN t.nodes :
           LET node == t.nodes[id]
           IN /\ node.id = id
              /\ (node.p = Null) <=> (id = t.root)
              /\ node.p # Null =>
                     /\ node.p \in DOMAIN t.nodes
                     /\ id \in Targets(t, node.p)
                     /\ node.d = t.nodes[node.p].d + 1
              /\ node.p = Null => node.d = 0
              /\ \A target \in Targets(t, id) :
                     target \in DOMAIN t.nodes /\ t.nodes[target].p = id

\* the node at depth j of the path from the root to n
OnPath(t, n, j) ==
    CHOOSE m \in DOMAIN t.nodes : t.nodes[m].d = j /\ (m = n \/ Leads(t, m, n))

\* the first action of the list that leads to the node
FirstActionTo(actions, id) ==
    LET at == {i \in DOMAIN actions : actions[i].n = id}
    IN actions[CHOOSE i \in at : \A j \in at : i <= j]

BreadcrumbCall == ret.op = "getBreadcrumbs"

----------------------------------------------------------------------------
(* Claims C7 - C10 *)

\* C7: in a valid tree getBreadcrumbs(root) returns exactly one entry, labelled
\* "Start", whose nodeId is the root id.
C7_RootHasOnlyStart ==
    (BreadcrumbCall /\ ValidTree(tree) /\ ret.arg[1] = tree.root) =>
        /\ Len(ret.value) = 1
        /\ ret.value[1].label = "Start"
        /\ ret.value[1].nodeId = tree.root

C7_Witness ==
    /\ BreadcrumbCall /\ ValidTree(tree) /\ ret.arg[1] = tree.root
    /\ Cardinality(DOMAIN tree.nodes) > 1

\* C8: in a valid tree getBreadcrumbs(n) is the "Start" entry followed, from
\* the root down to n, by one entry per step of the path; the entry of a step
\* has the label of the parent's first action that leads to the child, the
\* parent's acting player and that action's type.
C8_OneEntryPerStep ==
    (BreadcrumbCall /\ ValidTree(tree) /\ ret.arg[1] \in DOMAIN tree.nodes) =>
        LET n == ret.arg[1]
            depth == tree.nodes[n].d
        IN /\ Len(ret.value) = depth + 1
           /\ ret.value[1].label = "Start"
           /\ \A j \in 1..depth :
                  LET parent == tree.nodes[OnPath(tree, n, j - 1)]
                      action == FirstActionTo(parent.a, OnPath(tree, n, j))
                  IN /\ ret.value[j + 1].label = formatActionLabel(action.t, action.amt)
                     /\ ret.value[j + 1].player = parent.pl
                     /\ ret.value[j + 1].action = action.t

\* a node two steps below the root, entered by a parent that has two actions
\* leading to a child on the path
C8_Witness ==
    /\ BreadcrumbCall /\ ValidTree(tree) /\ ret.arg[1] \in DOMAIN tree.nodes
    /\ tree.nodes[ret.arg[1]].d = 2
    /\ ret.value[2].label = "Raise 3K"

\* C9 (as stated): in a valid tree the entries of getBreadcrumbs(n) have
\* pairwise distinct nodeIds, the first being the "Start" entry of the root.
C9_NodeIdsDistinct ==
    (BreadcrumbCall /\ ValidTree(tree) /\ ret.arg[1] \in DOMAIN tree.nodes) =>
        /\ ret.value[1].label = "Start"
        /\ \A i, j \in DOMAIN ret.value :
               i # j => ret.value[i].nodeId # ret.value[j].nodeId

\* C10: whatever was called before, getBreadcrumbs(n) returns what a walk of
\* the tree gives for n, the returned sequence is the cached one, and every
\* cached sequence is what a walk of the tree gives.
C10_CacheAgreesWithWalk ==
    /\ \A id \in DOMAIN breadcrumbCache :
           breadcrumbCache[id] = BuildBreadcrumbs(tree.nodes, id)
    /\ BreadcrumbCall =>
           /\ ret.value = BuildBreadcrumbs(tree.nodes, ret.arg[1])
           /\ ret.arg[1] \in DOMAIN breadcrumbCache
           /\ breadcrumbCache[ret.arg[1]] = ret.value

\* a call answered from the cache: the path of the node is cached, so its
\* breadcrumbs were computed before this call and not cleared since; and the
\* breadcrumbs of another node are cached beside it
C10_Witness ==
    /\ BreadcrumbCall
    /\ ret.arg[1] \in DOMAIN pathCache
    /\ Len(ret.value) > 1
    /\ \E id \in DOMAIN breadcrumbCache : id # ret.arg[1]

----------------------------------------------------------------------------
(* Claims C11 - C20: vocabulary *)

NavigateCall == ret.op = "navigateByPath"

Indexed == DOMAIN nodeCache

\* the smallest member of a non-empty set of positions
First(I) == CHOOSE i \in I : \A j \in I : i <= j

\* the positions of the actions of the type that have a target
Matching(actions, type) ==
    {i \in DOMAIN actions : actions[i].t = type /\ actions[i].n # Null}

\* one step of a walk: from the node id along the first action of the type
\* that has a target; Null when id is Null, is not indexed or has no such action
StepAlong(t, id, type) ==
    IF id \notin DOMAIN t.nodes \/ Matching(t.nodes[id].a, type) = {} THEN Null
    ELSE t.nodes[id].a[First(Matching(t.nodes[id].a, type))].n

\* where the first k of the types lead from start
RECURSIVE WalkTo(_, _, _, _)
WalkTo(t, start, types, k) ==
    IF k = 0 THEN start ELSE StepAlong(t, WalkTo(t, start, types, k - 1), types[k])

\* one step of a replay: the targetNode of the first entry of the type in the
\* available actions of the node; Null when there is no path for the node or
\* no such entry
ReplayStep(id, type) ==
    LET path == getNavigationPath(nodeCache, breadcrumbCache, id, FALSE, TRUE).value
        at == {i \in DOMAIN path.actions : path.actions[i].type = type}
    IN IF id = Null \/ path.isNull \/ at = {} THEN Null
       ELSE path.actions[First(at)].targetNode

RECURSIVE Replay(_, _, _)
Replay(start, types, k) ==
    IF k = 0 THEN start ELSE ReplayStep(Replay(start, types, k - 1), types[k])

\* the k-th position, in ascending order, of a set of positions
Kth(I, k) == CHOOSE i \in I : Cardinality({j \in I : j < i}) = k - 1

----------------------------------------------------------------------------
(* Claims C11 - C14: navigateByPath and the available actions *)

\* C11 (as stated): navigateByPath(startId, types) returns null when startId
\* is not indexed, and every id it returns is indexed, for every sequence of
\* types, the empty one included.
C11_NullOrIndexed ==
    NavigateCall =>
        /\ ret.arg[1] \notin Indexed => ret.value.isNull
        /\ ~ret.value.isNull => ret.value.id \in Indexed

\* C12: navigateByPath(startId, types) follows, type by type, the first action
\* of the current node that has the type and a target; it returns the node
\* reached after the last type, and null when a step cannot be taken.
C12_FollowsFirstMatch ==
    NavigateCall =>
        LET end == WalkTo(tree, ret.arg[1], ret.arg[2], Len(ret.arg[2]))
        IN IF end = Null THEN ret.value.isNull
           ELSE ~ret.value.isNull /\ ret.value.id = end

\* the root offers a call without target, then a call to node 1, then a call
\* to node 2: the call leads to node 1
C12_Witness ==
    /\ NavigateCall
    /\ tree.nodes = ForkNodes
    /\ ret.arg = <<"0", <<"C">>>>
    /\ ret.value = [isNull |-> FALSE, id |-> "1"]

\* C13: when navigateByPath(root, types) returns a node id, a replay of types
\* from the root, which at each node takes the first entry of the type in
\* getNavigationPath(node, false, true).actions and moves to its targetNode,
\* ends at that id.
C13_ReplayReachesSameNode ==
    (NavigateCall /\ ret.arg[1] = tree.root /\ ~ret.value.isNull) =>
        Replay(tree.root, ret.arg[2], Len(ret.arg[2])) = ret.value.id

\* two steps from the root of a valid tree
C13_Witness ==
    /\ NavigateCall /\ ValidTree(tree)
    /\ ret.arg = <<tree.root, <<"R", "A">>>>
    /\ ~ret.value.isNull
    /\ tree.nodes[ret.value.id].d = 2

\* C14: the available actions of an indexed node are its actions that have a
\* target, in the declared order, each with its label, target, type and amount
\* (0 without amount); those of an id that is not indexed are none.
C14_AvailableAreTargetedInOrder ==
    /\ getAvailableActions(nodeCache, AbsentId) = <<>>
    /\ (ret.op = "getNavigationPath" /\ ret.value.hasActions) =>
           LET actions == tree.nodes[ret.arg[1]].a
               I == {i \in DOMAIN actions : actions[i].n # Null}
               available == ret.value.actions
           IN /\ Len(available) = Cardinality(I)
              /\ \A k \in DOMAIN available :
                     LET action == actions[Kth(I, k)]
                     IN /\ available[k].targetNode = action.n
                        /\ available[k].type = action.t
                        /\ available[k].amount = action.amt
                        /\ available[k].label =
                               formatActionLabel(action.t, action.amt)

\* the root that offers a call without target, a call of 6 to node 1 and a
\* call without amount to node 2
C14_Witness ==
    /\ ret.op = "getNavigationPath" /\ ret.value.hasActions
    /\ tree.nodes = ForkNodes
    /\ ret.arg[1] = "0"
    /\ Len(ret.value.actions) = 2
    /\ ret.value.actions[1].amount = 6
    /\ ret.value.actions[2].targetNode = "2"

----------------------------------------------------------------------------
(* Claims C15 - C17: getTerminalNodes *)

TerminalCall == ret.op = "getTerminalNodes"

\* the nodes that action targets lead to from the start, the start included
ReachableNodes(t, start) == ReachedFrom(t, {start}) \cap DOMAIN t.nodes

C16_TerminalsAreReachableMarked ==
    TerminalCall =>
        LET terminals == ret.value.terminals
        IN /\ ~ret.value.threw
           /\ \A i, j \in DOMAIN terminals : i # j => terminals[i] # terminals[j]
           /\ {terminals[i] : i \in DOMAIN terminals} =
                  {id \in ReachableNodes(tree, ret.arg[1]) : isTerminal(tree.nodes[id])}

\* C17 (as stated): when some chain of actions from the root ends in a node
\* that has no action with a target, getTerminalNodes(root) returns at least
\* one id.
C17_SomeTerminalFromRoot ==
    (/\ TerminalCall
     /\ ret.arg[1] = tree.root
     /\ \E id \in ReachableNodes(tree, tree.root) : Targets(tree, id) = {}) =>
        ~ret.value.threw /\ ret.value.terminals # <<>>

----------------------------------------------------------------------------
(* Claims C18 - C20: validation and construction *)

ValidateCall == ret.op = "validateCompactTree"

\* the nodes whose parent link names no node
DanglingParents(t) ==
    {id \in DOMAIN t.nodes : t.nodes[id].p # Null /\ t.nodes[id].p \notin DOMAIN t.nodes}

\* the actions, as <<node id, position>>, whose target names no node
DanglingActions(t) ==
    UNION {{<<id, i>> : i \in {j \in DOMAIN t.nodes[id].a :
                                  /\ t.nodes[id].a[j].n # Null
                                  /\ t.nodes[id].a[j].n \notin DOMAIN t.nodes}} :
           id \in DOMAIN t.nodes}

Violations(t) ==
    (IF t.root \in DOMAIN t.nodes THEN 0 ELSE 1)
    + Cardinality(DanglingParents(t)) + Cardinality(DanglingActions(t))

\* the nodes without parent
Parentless(t) == {id \in DOMAIN t.nodes : t.nodes[id].p = Null}

\* C18: validateCompactTree(tree) answers isValid exactly when the root is a
\* key of the nodes, every parent that is present is a key and every action
\* target that is present is a key; it reports one error per violation; the
\* error of a dangling target names the node and the index of the action.
C18_ValidIffReferencesResolve ==
    ValidateCall =>
        /\ ret.value.isValid <=>
               /\ tree.root \in DOMAIN tree.nodes
               /\ \A id \in DOMAIN tree.nodes :
                      /\ tree.nodes[id].p # Null => tree.nodes[id].p \in DOMAIN tree.nodes
                      /\ \A target \in Targets(tree, id) : target \in DOMAIN tree.nodes
        /\ Len(ret.value.errors) = Violations(tree)
        /\ \A da \in DanglingActions(tree) :
               \E k \in DOMAIN ret.value.errors :
                   ret.value.errors[k] =
                       "Node " \o da[1] \o " action " \o ToString(da[2] - 1)
                       \o " references non-existent node "
                       \o tree.nodes[da[1]].a[da[2]].n

\* a tree with a root, a parent and a target that name no node: three errors,
\* the last for action 3 of node 0
C18_Witness ==
    /\ ValidateCall
    /\ ~ret.value.isValid
    /\ Len(ret.value.errors) = 3
    /\ ret.value.errors[2] = "Node 0 action 3 references non-existent node x"

\* C19 (as stated): a tree in which more than one node has no parent, or in
\* which the one node without parent is not the declared root, is reported
\* invalid.
C19_RootMissingOrDuplicateIsInvalid ==
    (/\ ValidateCall
     /\ \/ Cardinality(Parentless(tree)) > 1
        \/ Cardinality(Parentless(tree)) = 1 /\ Parentless(tree) # {tree.root}) =>
        ~ret.value.isValid

\* C20 (as stated): from a tree that fails validation no navigator is
\* constructed: the constructor fails and no query is answered.
C20_MalformedBlocksConstruction ==
    ~validateCompactTree(tree).isValid =>
        ret.op = "constructor" /\ ret.value.threw

----------------------------------------------------------------------------
(* Claims C21 - C24: paths, caches and labels of the navigator *)

NodePathCall == ret.op = "getNodePath"

\* the first k of the labels, joined
RECURSIVE Joined(_, _)
Joined(labels, k) ==
    IF k = 1 THEN labels[1]
    ELSE Joined(labels, k - 1) \o PathSeparator \o labels[k]

\* the path of a node as a navigator without cached values computes it
FreshNodePath(id) == getNodePath(nodeCache, EmptyCache, EmptyCache, id).value

Answers(nc, pc, bc, id) ==
    [breadcrumbs |-> getBreadcrumbs(nc, bc, id).value,
     nodePath |-> getNodePath(nc, pc, bc, id).value,
     navigationPath |-> [ib \in BOOLEAN, ia \in BOOLEAN |->
                            getNavigationPath(nc, bc, id, ib, ia).value],
     navigateByPath |-> [types \in TypeSeqs |-> navigateByPath(nc, id, types)]]

\* C22: clearCaches() leaves both caches empty and the node index and the tree
\* as they were, and every query answers after it what it answered before it.
C22_ClearKeepsAnswers ==
    [][ret'.op = "clearCaches" =>
           /\ pathCache' = EmptyCache
           /\ breadcrumbCache' = EmptyCache
           /\ nodeCache' = nodeCache
           /\ tree' = tree
           /\ \A id \in QueryIds(tree) :
                  Answers(nodeCache', pathCache', breadcrumbCache', id)
                      = Answers(nodeCache, pathCache, breadcrumbCache, id)]_vars

\* the caches of a navigator over a tree of three nodes have been cleared
C22_Witness ==
    /\ ret.op = "clearCaches"
    /\ ValidTree(tree)
    /\ Cardinality(DOMAIN nodeCache) = 3
    /\ pathCache = EmptyCache /\ breadcrumbCache = EmptyCache

\* C23: no operation of the navigator and no validation changes the tree or
\* the node index, which stays the tree's nodes; only the caches change, and
\* they do not change what any query answers: a query answers the same
\* whichever calls of whichever reader came before it.
C23_OnlyCachesChange ==
    /\ [][tree' = tree /\ nodeCache' = nodeCache]_vars
    /\ [](/\ nodeCache = tree.nodes
          /\ \A id \in QueryIds(tree) :
                 Answers(nodeCache, pathCache, breadcrumbCache, id)
                     = Answers(tree.nodes, EmptyCache, EmptyCache, id))

\* a query answered after other queries have filled the caches
C23_Witness ==
    /\ ret.op = "navigateByPath"
    /\ Cardinality(DOMAIN breadcrumbCache) >= 2
    /\ pathCache # EmptyCache
    /\ Cardinality(DOMAIN nodeCache) = 3

\* the label that the labelling policy gives an action
PolicyLabel(type, amount) ==
    IF type = "F" THEN "Fold"
    ELSE IF type = "C" THEN "Call"
    ELSE IF type = "X" THEN "Check"
    ELSE IF type = "A" THEN "All-in"
    ELSE IF amount > 0 THEN "Raise " \o formatAmount(amount)
    ELSE "Raise"

\* C24 (as stated): every label in the breadcrumbs and in the available
\* actions is the policy's: "Fold", "Call", "Check", "Raise {amount}" or
\* "Raise", and "All-in" for an all-in.
C24_LabelsFollowPolicy ==
    /\ BreadcrumbCall =>
           \A i \in DOMAIN ret.value :
               /\ ret.value[i].action = "A" => ret.value[i].label = "All-in"
               /\ ret.value[i].action \in {"F", "C", "X"} =>
                      ret.value[i].label = PolicyLabel(ret.value[i].action, 0)
    /\ (ret.op = "getNavigationPath" /\ ret.value.hasActions) =>
           \A i \in DOMAIN ret.value.actions :
               ret.value.actions[i].label =
                   PolicyLabel(ret.value.actions[i].type, ret.value.actions[i].amount)

----------------------------------------------------------------------------
(* Claim C28: the navigation path of the page *)

\* C28 (as stated): for a node n of a valid tree buildNavigationPath(n) is
\* the nodes from the root to n, each once and in that order: depth(n) + 1
\* nodes, the j-th being the node at depth j - 1 of the path to n.
C28_PathIsRootToNode ==
    (/\ ret.op = "buildNavigationPath"
     /\ ValidTree(tree)
     /\ ret.arg[1] \in DOMAIN tree.nodes) =>
        LET n == ret.arg[1]
        IN /\ Len(ret.value) = tree.nodes[n].d + 1
           /\ \A j \in DOMAIN ret.value :
                  j <= tree.nodes[n].d + 1 =>
                      ret.value[j] = tree.nodes[OnPath(tree, n, j - 1)]

----------------------------------------------------------------------------
(* Claims C29 - C30: the stacks of the table view *)

RECURSIVE SumOver(_, _)
SumOver(f, k) == IF k = 0 THEN 0 ELSE f[k] + SumOver(f, k - 1)

\* every entry of the sequence is of a seat of the table
PlayersInRange == \A i \in DOMAIN sequence : sequence[i].player < settings.playerCount

\* C29: at a table of 2 to 9 players with one starting stack per player and a
\* sequence whose players are seats of the table, the chips that left the
\* stacks of getPlayerStacks are the totalPot of calculatePotAndContributions,
\* and totalPot is ante * playerCount plus the players' total contributions.
C29_ChipsConserved ==
    (/\ settings.playerCount \in 2..9
     /\ Len(settings.stacks) = settings.playerCount
     /\ PlayersInRange) =>
        LET n == settings.playerCount
            left == [p \in 1..n |-> settings.stacks[p] - playerStacks[p]]
        IN /\ SumOver(left, n) = pot.value.totalPot
           /\ pot.value.totalPot =
                  settings.blinds.ante * n
                  + SumOver(pot.value.playerTotalContributions, n)

\* three wagers at the 4-handed table with an ante, after which a stack of
\* getPlayerStacks is below zero
C29_Witness ==
    /\ settings.playerCount = 4
    /\ PlayersInRange
    /\ Len(sequence) = 3
    /\ \A i \in DOMAIN sequence : sequence[i].type \in {"C", "R", "A"}
    /\ \E i \in DOMAIN sequence : sequence[i].player = 2
    /\ \E p \in DOMAIN playerStacks : playerStacks[p] < 0

\* C30 (as stated): for every seat p, calculatePlayerStackAbsolute(p) is
\* max(0, getPlayerStacks()[p]), the stack that the table view displays.
C30_StackFunctionsAgree ==
    (/\ settings.playerCount \in 2..9
     /\ Len(settings.stacks) = settings.playerCount) =>
        \A p \in Seats :
            stackAbsolute[p].value = Max(0, playerStacks[p + 1])

----------------------------------------------------------------------------
(* Claim C27: the node data on display *)

\* C27 (as stated): when no fetch is awaited, the node data on display is
\* what a fetch for the current node gives (null without a spot): the answer
\* of a fetch started for an earlier node does not stay on display.
C27_DisplayedDataIsOfCurrentNode ==
    nodeFetches = <<>> =>
        CNodeData = IF spot.loaded THEN NodeDataOf(pageCurrentNode) ELSE "null"

----------------------------------------------------------------------------
(* Claims C25, C26: the provider *)

\* the locator has been resolved to a tree: some render's Map holds it
Resolved(path) ==
    \E render \in DOMAIN optimizedTreeCache : path \in optimizedTreeCache[render]

\* C25 (as stated): once a locator has been resolved to a tree, no later
\* request for it, in any interleaving of requests and renders of the
\* provider, downloads it again.
C25_ResolvedLocatorNotDownloadedAgain ==
    [][\A path \in Locators : Resolved(path) => downloads'[path] = downloads[path]]_vars

\* the blinds array and the stacks that the raw settings hold, if any
AuthoredHanddata(rawSettings) ==
    IF rawSettings.isNull THEN EmptyHanddata
    ELSE OrDefault(rawSettings.handdata, EmptyHanddata)
AuthoredBlinds(rawSettings) == OrDefault(AuthoredHanddata(rawSettings).blinds, <<>>)

\* C26: for every raw settings value, null and objects without handdata,
\* blinds or stacks included, the processed settings have as big blind
\* the first blinds entry when there is one and it is not zero, and 100000
\* otherwise; as ante the third blinds entry, or 0 without one; as stacks the
\* authored stacks, or the default pair without any; and as playerCount the
\* length of those stacks. The result is a function of the raw value.
C26_SettingsAreNonZeroAuthoredOrDefault ==
    processedSettings.op = "processSettingsData" =>
        LET blindsEntries == AuthoredBlinds(processedSettings.raw)
            authoredStacks == AuthoredHanddata(processedSettings.raw).stacks
            result == processedSettings.settings
        IN  /\ result = processSettingsData(processedSettings.raw)
            /\ result.blinds.bb
                  = IF Len(blindsEntries) >= 1 /\ blindsEntries[1] # 0
                    THEN blindsEntries[1] ELSE 100000
            /\ result.blinds.ante
                  = IF Len(blindsEntries) >= 3 THEN blindsEntries[3] ELSE 0
            /\ result.stacks
                  = IF Len(authoredStacks) = 0 THEN DefaultStacks ELSE authoredStacks[1]
            /\ result.playerCount = Len(result.stacks)

\* raw settings whose blinds start with 0: the big blind is the default
C26_Witness ==
    /\ processedSettings.op = "processSettingsData"
    /\ AuthoredBlinds(processedSettings.raw) = <<0, 0, 0>>
    /\ AuthoredHanddata(processedSettings.raw).stacks = Present(<<500, 0, 500>>)
    /\ processedSettings.settings.blinds.bb = 100000
    /\ processedSettings.settings.playerCount = 3

\* C26 (as stated): the processed settings have as big blind the first
\* blinds entry, or 100000 when it is absent, as ante the third blinds entry,
\* or 0 when it is absent, as stacks the authored stacks or the default, and
\* as playerCount the length of the stacks.
C26_SettingsAreAuthoredOrDefault ==
    processedSettings.op = "processSettingsData" =>
        LET blindsEntries == AuthoredBlinds(processedSettings.raw)
            authoredStacks == AuthoredHanddata(processedSettings.raw).stacks
            result == processedSettings.settings
        IN  /\ result.blinds.bb
                  = IF Len(blindsEntries) >= 1 THEN blindsEntries[1] ELSE 100000
            /\ result.blinds.ante
                  = IF Len(blindsEntries) >= 3 THEN blindsEntries[3] ELSE 0
            /\ result.stacks
                  = IF Len(authoredStacks) = 0 THEN DefaultStacks ELSE authoredStacks[1]
            /\ result.playerCount = Len(result.stacks)

====
